---- MODULE Spec2Model ----
(***************************************************************************)
(* Model of the nebula server: the JWT helper (server/utils/jwt.py) and   *)
(* the registration endpoint (server/main.py).                             *)
(*                                                                         *)
(* Time is counted in ticks, TicksPerSecond ticks to the second, so that   *)
(* datetime.now() has sub-second resolution while the exp claim that       *)
(* jwt.encode writes is a whole number of seconds.                         *)
(***************************************************************************)
EXTENDS Integers, FiniteSets, Sequences, TLC

\* ------------------------------------------------------------------ bounds
TicksPerSecond == 2
MaxRequests == 4

\* ------------------------------------------------------- program constants
SecondsPerMinute == 60
SecondsPerDay == 86400
DefaultHours == 24
SecondsPerHour == 3600
DefaultMinutes == 30
DefaultDays == 7
Conflict == 409

\* TokenType enum
ACCESS == "access"
REFRESH == "refresh"

\* Python's None
None == "<None>"

\* secret_key / algorithm the JWTManager hands to both handlers
SECRET_KEY == "your-secret-key-here"
Algorithm == "HS256"

UserIds == {"", "alice"}

\* constructor arguments (expiration_minutes, expiration_days) of the two
\* handlers: the defaults the JWTManager uses, and zero durations
Configs == {<<DefaultMinutes, DefaultDays>>, <<0, 0>>}

\* register requests: SignUpRequest(firstname, lastname, email, username, password)
SignUpRequests ==
    [firstname : {"Ada"}, lastname : {"L"}, email : {"a@x.org", "b@x.org"},
     username : {"ada", "bob"}, password : {"pw"}]

timedelta(days, hours, minutes) ==
    (days * SecondsPerDay + hours * SecondsPerHour + minutes * SecondsPerMinute)
        * TicksPerSecond

\* ------------------------------------------------------------ token strings
\* payloads are dicts: functions from the keys they hold (sub, type, role, exp)
NoClaims == <<>>

\* additional_claims a caller passes to the handler of type ty: none, a plain
\* extra claim, and a mapping that names the keys type and sub
AdditionalClaims(ty) ==
    { NoClaims,
      [role |-> "admin"],
      [type |-> IF ty = ACCESS THEN REFRESH ELSE ACCESS, sub |-> "mallory"] }

\* the (user_id, additional_claims) arguments of the issuing calls
IssueArgs(ty) ==
    {a \in UserIds \X AdditionalClaims(ty) : a[1] # "" \/ a[2] = NoClaims}

\* bool(additional_claims): None and the empty dict are both falsy
DictTruthy(d) == DOMAIN d # {}

\* dict.update: the keys of other are added to d or replace those of d
DictUpdate(d, other) == other @@ d

\* dict.get: None for a missing key
DictGet(d, k) == IF k \in DOMAIN d THEN d[k] ELSE None

\* HMAC over header and payload, as an ideal MAC: equal iff same input, same key
Sign(alg, claims, key) == [key |-> key, alg |-> alg, claims |-> claims]

\* a string that is not a three-segment JWT
Garbage == [fmt |-> "garbage"]

\* the None of an Optional[str] token result
NoToken == [fmt |-> "None"]

\* jwt.encode: a datetime exp becomes whole seconds (timegm of the UTC time
\* tuple), then header and payload are signed
LibEncode(payload, key, alg) ==
    LET claims == [payload EXCEPT !.exp = @ \div TicksPerSecond]
    IN  [fmt |-> "jwt", alg |-> alg, claims |-> claims,
         sig |-> Sign(alg, claims, key)]

LibError(cls, msg) == [ok |-> FALSE, cls |-> cls, msg |-> msg]

\* jwt.decode that takes a token to expire only after the second of its exp
LibDecodeLate(token, key, alg, t) ==
    IF token.fmt # "jwt" THEN LibError("DecodeError", "Not enough segments")
    ELSE IF token.alg # alg THEN
        LibError("InvalidAlgorithmError", "The specified alg value is not allowed")
    ELSE IF token.sig # Sign(token.alg, token.claims, key) THEN
        LibError("InvalidSignatureError", "Signature verification failed")
    ELSE IF token.claims.exp * TicksPerSecond < t THEN
        LibError("ExpiredSignatureError", "Signature has expired")
    ELSE [ok |-> TRUE, cls |-> "none", msg |-> "", payload |-> token.claims]

\* jwt.decode(token, key, algorithms=[alg]) at instant t: the segments, then
\* the allowed algorithms, then the signature, then exp <= now
LibDecode(token, key, alg, t) ==
    IF token.fmt # "jwt" THEN LibError("DecodeError", "Not enough segments")
    ELSE IF token.alg # alg THEN
        LibError("InvalidAlgorithmError", "The specified alg value is not allowed")
    ELSE IF token.sig # Sign(token.alg, token.claims, key) THEN
        LibError("InvalidSignatureError", "Signature verification failed")
    ELSE IF token.claims.exp * TicksPerSecond <= t THEN
        LibError("ExpiredSignatureError", "Signature has expired")
    ELSE [ok |-> TRUE, cls |-> "none", msg |-> "", payload |-> token.claims]

\* the exception classes of the jwt library that derive from InvalidTokenError
InvalidTokenErrors ==
    {"InvalidTokenError", "DecodeError", "InvalidAlgorithmError",
     "InvalidSignatureError", "ExpiredSignatureError"}

\* ------------------------------------------------------------- class JWT
\* encode_token at instant t; expires_delta is a timedelta in ticks, and a
\* zero timedelta is falsy
encode_token(payload, expires_delta, t) ==
    LET expire == IF expires_delta # 0
                  THEN t + expires_delta
                  ELSE t + timedelta(0, DefaultHours, 0)
    IN  LibEncode(DictUpdate(payload, [exp |-> expire]), SECRET_KEY, Algorithm)

\* decode_token at instant t: the payload, or an InvalidTokenError whose text
\* is "Invalid token: " followed by the text (msg) of the InvalidTokenError
\* the library raised
\* decode_token raising InvalidTokenError("Invalid token") without the cause
decode_tokenNoCause(token, t) ==
    LET r == LibDecode(token, SECRET_KEY, Algorithm, t)
    IN  IF r.ok \/ r.cls \notin InvalidTokenErrors THEN r
        ELSE [r EXCEPT !.cls = "InvalidTokenError", !.msg = ""]

decode_token(token, t) ==
    LET r == LibDecode(token, SECRET_KEY, Algorithm, t)
    IN  IF r.ok \/ r.cls \notin InvalidTokenErrors THEN r
        ELSE [r EXCEPT !.cls = "InvalidTokenError"]

\* result of a handler-level call: what it returned, or the class it raised
Returned(b, s) == [raised |-> "none", bool |-> b, sub |-> s]
Raised(cls) == [raised |-> cls, bool |-> FALSE, sub |-> None]

verify_token(token, t) ==
    LET r == decode_token(token, t)
    IN  IF r.ok THEN Returned(TRUE, None)
        ELSE IF r.cls \in InvalidTokenErrors THEN Returned(FALSE, None)
        ELSE Raised(r.cls)

\* ------------------------------------------------------------------- state
VARIABLES
    now,                 \* datetime.now(timezone.utc), in ticks
    expiration_minutes,  \* AccessToken.expiration_minutes
    expiration_days,     \* RefreshToken.expiration_days
    held,                \* the latest issuance of each handler: token, arguments, instant
    last,                \* the call completed at this instant, and what it returned
    xch,                 \* the generate_new_access_token call in progress
    users_db,            \* main.py: email -> stored record
    requests,            \* main.py: the register requests handled, in order
    response             \* main.py: outcome of the last register request

vars == <<now, expiration_minutes, expiration_days, held, last, xch,
          users_db, requests, response>>

config == <<expiration_minutes, expiration_days>>
dbVars == <<users_db, requests, response>>
jwtVars == <<now, config, held, last, xch>>

\* ------------------------------------------------------- class AccessToken
generate_access_token(user_id, additional_claims, t) ==
    LET payload == [sub |-> user_id, type |-> ACCESS]
        updated == IF DictTruthy(additional_claims)
                   THEN DictUpdate(payload, additional_claims)
                   ELSE payload
    IN  encode_token(updated, timedelta(0, 0, expiration_minutes), t)

\* verify_access_token without the comparison of the type claim
verify_access_tokenAnyType(token, t) ==
    LET r == decode_token(token, t)
    IN  IF r.ok THEN Returned(TRUE, None)
        ELSE IF r.cls \in InvalidTokenErrors THEN Returned(FALSE, None)
        ELSE Raised(r.cls)

verify_access_token(token, t) ==
    LET r == decode_token(token, t)
    IN  IF r.ok THEN Returned(DictGet(r.payload, "type") = ACCESS, None)
        ELSE IF r.cls \in InvalidTokenErrors THEN Returned(FALSE, None)
        ELSE Raised(r.cls)

\* get_user_id_from_token returning `payload.get("sub") or None`
AccessGetUserIdOrNone(token, t) ==
    LET r == decode_token(token, t)
    IN  IF r.ok THEN
            IF DictGet(r.payload, "type") = ACCESS /\ DictGet(r.payload, "sub") # ""
            THEN Returned(FALSE, DictGet(r.payload, "sub"))
            ELSE Returned(FALSE, None)
        ELSE IF r.cls \in InvalidTokenErrors THEN Returned(FALSE, None)
        ELSE Raised(r.cls)

AccessGetUserId(token, t) ==
    LET r == decode_token(token, t)
    IN  IF r.ok THEN
            IF DictGet(r.payload, "type") = ACCESS
            THEN Returned(FALSE, DictGet(r.payload, "sub"))
            ELSE Returned(FALSE, None)
        ELSE IF r.cls \in InvalidTokenErrors THEN Returned(FALSE, None)
        ELSE Raised(r.cls)

\* ConcreteAccessToken.validate_access_token
validate_access_token(token, t) == verify_access_token(token, t)

\* ------------------------------------------------------ class RefreshToken
generate_refresh_token(user_id, additional_claims, t) ==
    LET payload == [sub |-> user_id, type |-> REFRESH]
        updated == IF DictTruthy(additional_claims)
                   THEN DictUpdate(payload, additional_claims)
                   ELSE payload
    IN  encode_token(updated, timedelta(expiration_days, 0, 0), t)

\* verify_refresh_token catching jwt.ExpiredSignatureError only
verify_refresh_tokenNarrow(token, t) ==
    LET r == decode_token(token, t)
    IN  IF r.ok THEN Returned(DictGet(r.payload, "type") = REFRESH, None)
        ELSE IF r.cls = "ExpiredSignatureError" THEN Returned(FALSE, None)
        ELSE Raised(r.cls)

verify_refresh_token(token, t) ==
    LET r == decode_token(token, t)
    IN  IF r.ok THEN Returned(DictGet(r.payload, "type") = REFRESH, None)
        ELSE IF r.cls \in InvalidTokenErrors THEN Returned(FALSE, None)
        ELSE Raised(r.cls)

RefreshGetUserId(token, t) ==
    LET r == decode_token(token, t)
    IN  IF r.ok THEN
            IF DictGet(r.payload, "type") = REFRESH
            THEN Returned(FALSE, DictGet(r.payload, "sub"))
            ELSE Returned(FALSE, None)
        ELSE IF r.cls \in InvalidTokenErrors THEN Returned(FALSE, None)
        ELSE Raised(r.cls)

\* bool(user_id) of an Optional[str]: None and "" are falsy
StrTruthy(s) == s # None /\ s # ""

\* --------------------------------------------------- tokens a caller holds
Issuance(tok, by, user_id, extra, delta) ==
    [tok |-> tok, by |-> by, user |-> user_id, extra |-> extra,
     at |-> now, ttl |-> delta]

NoIssuance ==
    [tok |-> NoToken, by |-> "", user |-> None, extra |-> NoClaims,
     at |-> 0, ttl |-> 0]

Issued == {held[h] : h \in {ACCESS, REFRESH}} \ {NoIssuance}

IssuedTokens == {r.tok : r \in Issued}

\* an issued token with a character of its signature segment changed
Tampered(tok) == [tok EXCEPT !.sig.key = "tampered"]

\* tokens made outside the handlers: signed with another secret, and signed
\* with the right secret under another algorithm
Forged ==
    { LibEncode([sub |-> "alice", type |-> ty,
                 exp |-> timedelta(2 * DefaultDays, 0, 0)], key, alg) :
        <<ty, key, alg>> \in {<<ACCESS, "wrong-secret", Algorithm>>,
                              <<REFRESH, SECRET_KEY, "HS512">>} }

Presentable ==
    IssuedTokens \cup {Tampered(tok) : tok \in IssuedTokens}
        \cup Forged \cup {Garbage}

\* -------------------------------------------------------------- operations
Call(op, tok, res, out, out2) ==
    [op |-> op, tok |-> tok, at |-> now, raised |-> res.raised,
     bool |-> res.bool, sub |-> res.sub, msg |-> "", out |-> out, out2 |-> out2,
     t2 |-> now, minted |-> {}]

Idle ==
    [pc |-> "idle", via |-> "", tok |-> NoToken, user_id |-> None, t2 |-> 0]

NoCall ==
    [Call("", NoToken, Returned(FALSE, None), NoToken, NoToken) EXCEPT !.at = 0, !.t2 = 0]

InitJwt ==
    /\ now = 0
    /\ held = [h \in {ACCESS, REFRESH} |-> NoIssuance]
    /\ last = NoCall
    /\ xch = Idle

InitDb ==
    /\ users_db = <<>>
    /\ requests = <<>>
    /\ response = [status |-> 0, result |-> FALSE]

Init ==
    /\ \E c \in Configs : expiration_minutes = c[1] /\ expiration_days = c[2]
    /\ InitJwt
    /\ InitDb

\* the durations the two handlers pass to encode_token, as encode_token uses them
Durations ==
    { IF d # 0 THEN d ELSE timedelta(0, DefaultHours, 0) :
        d \in {timedelta(0, 0, expiration_minutes), timedelta(expiration_days, 0, 0)} }

\* the instants at which callers read the clock: the start, a fraction of a
\* second later, and the ticks around each duration's end
Instants == {0, 1} \cup UNION {{d - 1, d} : d \in Durations}

Tick(t) ==
    /\ t > now
    /\ now' = t
    /\ last' = NoCall
    /\ UNCHANGED <<config, held, xch, dbVars>>

GenerateAccessToken(user_id, extra) ==
    LET tok == generate_access_token(user_id, extra, now)
    IN  /\ xch.pc = "idle"
        /\ held' = [held EXCEPT ![ACCESS] =
                        Issuance(tok, ACCESS, user_id, extra,
                                 timedelta(0, 0, expiration_minutes))]
        /\ last' = Call("generate_access_token", NoToken, Returned(FALSE, None),
                        tok, NoToken)
        /\ UNCHANGED <<now, config, xch, dbVars>>

GenerateRefreshToken(user_id, extra) ==
    LET tok == generate_refresh_token(user_id, extra, now)
    IN  /\ xch.pc = "idle"
        /\ held' = [held EXCEPT ![REFRESH] =
                        Issuance(tok, REFRESH, user_id, extra,
                                 timedelta(expiration_days, 0, 0))]
        /\ last' = Call("generate_refresh_token", NoToken, Returned(FALSE, None),
                        tok, NoToken)
        /\ UNCHANGED <<now, config, xch, dbVars>>

\* JWTManager.generate_token_pair
GenerateTokenPair(user_id) ==
    LET a == generate_access_token(user_id, NoClaims, now)
        r == generate_refresh_token(user_id, NoClaims, now)
    IN  /\ xch.pc = "idle"
        /\ held' = [held EXCEPT
                        ![ACCESS] = Issuance(a, ACCESS, user_id, NoClaims,
                                             timedelta(0, 0, expiration_minutes)),
                        ![REFRESH] = Issuance(r, REFRESH, user_id, NoClaims,
                                              timedelta(expiration_days, 0, 0))]
        /\ last' = Call("generate_token_pair", NoToken, Returned(FALSE, None), a, r)
        /\ UNCHANGED <<now, config, xch, dbVars>>

\* the calls that only read
Query(op, tok, res) ==
    /\ xch.pc = "idle"
    /\ last' = Call(op, tok, res, NoToken, NoToken)
    /\ UNCHANGED <<now, config, held, xch, dbVars>>

DecodeToken(tok) ==
    LET r == decode_token(tok, now)
    IN  /\ xch.pc = "idle"
        /\ last' = [Call("decode_token", tok,
                         IF r.ok THEN Returned(TRUE, DictGet(r.payload, "sub"))
                         ELSE Raised(r.cls), NoToken, NoToken)
                    EXCEPT !.msg = r.msg]
        /\ UNCHANGED <<now, config, held, xch, dbVars>>

VerifyToken(tok) == Query("verify_token", tok, verify_token(tok, now))

VerifyAccessToken(tok) ==
    Query("verify_access_token", tok, validate_access_token(tok, now))

VerifyRefreshToken(tok) ==
    Query("verify_refresh_token", tok, verify_refresh_token(tok, now))

AccessGetUserIdFromToken(tok) ==
    Query("access.get_user_id_from_token", tok, AccessGetUserId(tok, now))

RefreshGetUserIdFromToken(tok) ==
    Query("refresh.get_user_id_from_token", tok, RefreshGetUserId(tok, now))

\* ConcreteRefreshToken.generate_new_access_token, which
\* JWTManager.refresh_access_token forwards to.  Its three clock-dependent
\* steps happen at three instants: the decode of get_user_id_from_token, the
\* decode of verify_refresh_token, and the now() of generate_access_token.
\* The clock moves between them; the other calls share no state with an
\* exchange (secret, algorithm and durations are read-only), so they are taken
\* between exchanges.
ExchangeReturn(res, minted) ==
    [Call(xch.via, xch.tok, res,
          IF minted = {} THEN NoToken ELSE CHOOSE m \in minted : TRUE, NoToken)
     EXCEPT !.t2 = xch.t2, !.minted = minted]

ExchangeOps == {"generate_new_access_token", "refresh_access_token"}

\* an exception a handler does not catch leaves generate_new_access_token
ExchangeGetUserId(via, tok) ==
    LET r == RefreshGetUserId(tok, now)
        entered == [pc |-> "got_user_id", via |-> via, tok |-> tok,
                    user_id |-> r.sub, t2 |-> 0]
    IN  /\ xch.pc = "idle"
        /\ IF r.raised # "none" THEN
               /\ last' = [Call(via, tok, r, NoToken, NoToken) EXCEPT !.t2 = 0]
               /\ xch' = Idle
           ELSE
               /\ last' = NoCall
               /\ xch' = entered
        /\ UNCHANGED <<now, config, held, dbVars>>

\* JWTManager.refresh_access_token: forwards to the refresh handler with the
\* manager's own access handler
RefreshAccessToken(refresh_token_str) ==
    ExchangeGetUserId("refresh_access_token", refresh_token_str)

\* ConcreteRefreshToken.generate_new_access_token called on the handler
GenerateNewAccessToken(refresh_token) ==
    ExchangeGetUserId("generate_new_access_token", refresh_token)

\* the exchange trusting the subject it extracted, without the second check
ExchangeVerifySkipped ==
    /\ xch.pc = "got_user_id"
    /\ IF ~StrTruthy(xch.user_id) THEN
           /\ last' = ExchangeReturn(Returned(FALSE, xch.user_id), {})
           /\ xch' = Idle
       ELSE
           /\ xch' = [xch EXCEPT !.pc = "verified", !.t2 = now]
           /\ last' = NoCall
    /\ UNCHANGED <<now, config, held, dbVars>>

ExchangeVerify ==
    LET r == verify_refresh_token(xch.tok, now)
    IN  /\ xch.pc = "got_user_id"
        /\ IF ~StrTruthy(xch.user_id) THEN
               /\ last' = ExchangeReturn(Returned(FALSE, xch.user_id), {})
               /\ xch' = Idle
           ELSE IF r.raised # "none" THEN
               /\ last' = [ExchangeReturn(r, {}) EXCEPT !.t2 = now]
               /\ xch' = Idle
           ELSE IF r.bool THEN
               /\ xch' = [xch EXCEPT !.pc = "verified", !.t2 = now]
               /\ last' = NoCall
           ELSE
               /\ last' = [ExchangeReturn(Returned(FALSE, xch.user_id), {})
                           EXCEPT !.t2 = now]
               /\ xch' = Idle
        /\ UNCHANGED <<now, config, held, dbVars>>

ExchangeIssue ==
    LET tok == generate_access_token(xch.user_id, NoClaims, now)
    IN  /\ xch.pc = "verified"
        /\ held' = [held EXCEPT ![ACCESS] =
                        Issuance(tok, ACCESS, xch.user_id, NoClaims,
                                 timedelta(0, 0, expiration_minutes))]
        /\ last' = ExchangeReturn(Returned(TRUE, xch.user_id), {tok})
        /\ xch' = Idle
        /\ UNCHANGED <<now, config, dbVars>>

Next ==
    \/ \E t \in Instants : Tick(t)
    \/ \E a \in IssueArgs(ACCESS) : GenerateAccessToken(a[1], a[2])
    \/ \E a \in IssueArgs(REFRESH) : GenerateRefreshToken(a[1], a[2])
    \/ \E u \in UserIds : GenerateTokenPair(u)
    \/ \E tok \in Presentable : DecodeToken(tok)
    \/ \E tok \in Presentable : VerifyToken(tok)
    \/ \E tok \in Presentable : VerifyAccessToken(tok)
    \/ \E tok \in Presentable : VerifyRefreshToken(tok)
    \/ \E tok \in Presentable : AccessGetUserIdFromToken(tok)
    \/ \E tok \in Presentable : RefreshGetUserIdFromToken(tok)
    \/ \E tok \in Presentable : GenerateNewAccessToken(tok)
    \/ \E tok \in Presentable : RefreshAccessToken(tok)
    \/ ExchangeVerify
    \/ ExchangeIssue

Spec == Init /\ [][Next]_vars

\* ------------------------------------------------------------------ main.py
\* sign_up: one request handled as one step
\* sign_up without the lookup of the email
sign_upOverwrite(request) ==
    /\ Len(requests) < MaxRequests
    /\ requests' = Append(requests, request)
    /\ users_db' = [e \in DOMAIN users_db \cup {request.email} |->
                       IF e = request.email THEN request ELSE users_db[e]]
    /\ response' = [status |-> 200, result |-> TRUE]
    /\ UNCHANGED jwtVars

sign_up(request) ==
    /\ Len(requests) < MaxRequests
    /\ requests' = Append(requests, request)
    /\ IF request.email \in DOMAIN users_db THEN
           /\ response' = [status |-> Conflict, result |-> FALSE]
           /\ UNCHANGED users_db
       ELSE
           /\ users_db' = [e \in DOMAIN users_db \cup {request.email} |->
                              IF e = request.email THEN request ELSE users_db[e]]
           /\ response' = [status |-> 200, result |-> TRUE]
    /\ UNCHANGED jwtVars

InitUsers ==
    /\ expiration_minutes = DefaultMinutes
    /\ expiration_days = DefaultDays
    /\ InitJwt
    /\ InitDb

NextUsers == \E request \in SignUpRequests : sign_up(request)

SpecUsers == InitUsers /\ [][NextUsers]_vars

\* ================================================================== claims
NoOverride(r) == DOMAIN r.extra \cap {"sub", "type"} = {}

\* the validate / subject_of of the handler that issued r, at instant t
Validate(r, t) ==
    IF r.by = ACCESS THEN verify_access_token(r.tok, t).bool
    ELSE verify_refresh_token(r.tok, t).bool

SubjectOf(r, t) ==
    IF r.by = ACCESS THEN AccessGetUserId(r.tok, t).sub
    ELSE RefreshGetUserId(r.tok, t).sub

\* C1: a token issued by a handler configured with ttl = 0 is rejected by
\* validate and yields absent from get_user_id_from_token, from the instant of
\* issuance on.
C1_ZeroTtlRejected ==
    \A r \in Issued :
        r.ttl = 0 => ~Validate(r, now) /\ SubjectOf(r, now) = None

\* C2: exchanging a freshly issued refresh token for U, for every U including
\* the empty string, returns a token that the access handler accepts with
\* subject U.
C2_ExchangeFreshSucceeds ==
    LET r == held[REFRESH]
    IN  (/\ last.op \in ExchangeOps
         /\ last.tok = r.tok
         /\ r.extra = NoClaims
         /\ r.at = last.at)
        => /\ last.raised = "none"
           /\ last.out # NoToken
           /\ verify_access_token(last.out, now).bool
           /\ AccessGetUserId(last.out, now).sub = r.user

\* C3: every decodable, unexpired token whose type claim is "access" was
\* produced by the access handler's issue, and every one whose type claim is
\* "refresh" by the refresh handler's issue, whatever extra_claims were passed.
C3_TypeTellsIssuer ==
    \A tok \in Presentable :
        LET r == decode_token(tok, now)
        IN  r.ok => /\ DictGet(r.payload, "type") = ACCESS => held[ACCESS].tok = tok
                    /\ DictGet(r.payload, "type") = REFRESH => held[REFRESH].tok = tok

\* the type claim a token string carries, None if it carries none
TypeClaim(tok) == IF tok.fmt = "jwt" THEN DictGet(tok.claims, "type") ELSE None

\* C4: type confusion is rejected in both directions: the access handler's
\* validate and get_user_id_from_token reject a token the refresh handler
\* issued for U, and the refresh handler's validate and exchange reject a token
\* the access handler issued for U, minting nothing.
C4_TypeConfusionRejected ==
    /\ \A r \in Issued :
          NoOverride(r) =>
              /\ r.by = REFRESH =>
                    /\ ~verify_access_token(r.tok, now).bool
                    /\ AccessGetUserId(r.tok, now).sub = None
              /\ r.by = ACCESS =>
                    /\ ~verify_refresh_token(r.tok, now).bool
                    /\ RefreshGetUserId(r.tok, now).sub = None
    /\ (last.op = "verify_access_token" /\ TypeClaim(last.tok) = REFRESH)
          => ~last.bool
    /\ (last.op = "access.get_user_id_from_token" /\ TypeClaim(last.tok) = REFRESH)
          => last.sub = None
    /\ (last.op = "verify_refresh_token" /\ TypeClaim(last.tok) = ACCESS)
          => ~last.bool
    /\ (last.op \in ExchangeOps /\ TypeClaim(last.tok) = ACCESS)
          => last.out = NoToken /\ last.minted = {}
    /\ xch.pc = "verified" => TypeClaim(xch.tok) # ACCESS

\* a live refresh token was presented to the access handler's validate and
\* rejected, while a live access token is held as well
C4_Witness ==
    /\ last.op = "verify_access_token"
    /\ last.tok = held[REFRESH].tok
    /\ NoOverride(held[REFRESH])
    /\ verify_refresh_token(last.tok, now).bool
    /\ ~last.bool
    /\ held[ACCESS] # NoIssuance
    /\ verify_access_token(held[ACCESS].tok, now).bool

\* C5: get_user_id_from_token of the token generate_access_token(U) returned,
\* immediately after issuance, is U, and both tokens of generate_token_pair(U)
\* decode to sub = U.
C5_SubjectRoundTrip ==
    /\ \A r \in Issued :
          (r.by = ACCESS /\ NoOverride(r) /\ r.at = now)
              => AccessGetUserId(r.tok, now) = Returned(FALSE, r.user)
    /\ (/\ last.op = "access.get_user_id_from_token"
        /\ last.tok = held[ACCESS].tok
        /\ NoOverride(held[ACCESS])
        /\ held[ACCESS].at = last.at)
          => last.sub = held[ACCESS].user
    /\ last.op = "generate_token_pair" =>
          /\ decode_token(last.out, now).ok
          /\ decode_token(last.out2, now).ok
          /\ decode_token(last.out, now).payload.sub = held[ACCESS].user
          /\ decode_token(last.out2, now).payload.sub = held[ACCESS].user
          /\ held[REFRESH].user = held[ACCESS].user

\* the subject of a token just issued for the empty user id was read back
C5_Witness ==
    /\ last.op = "access.get_user_id_from_token"
    /\ last.tok = held[ACCESS].tok
    /\ held[ACCESS].at = now
    /\ held[ACCESS].user = ""
    /\ last.sub = ""

\* the token classes the handlers must turn into false / absent
Sound(tok) ==
    /\ tok.fmt = "jwt"
    /\ tok.alg = Algorithm
    /\ tok.sig = Sign(tok.alg, tok.claims, SECRET_KEY)

Expired(tok, t) == tok.claims.exp * TicksPerSecond <= t

Rejected(res) == res = Returned(FALSE, None)

HandlerOps ==
    {"verify_token", "verify_access_token", "verify_refresh_token",
     "access.get_user_id_from_token", "refresh.get_user_id_from_token"}
        \cup ExchangeOps

\* C6: for every token input (malformed, tampered signature, wrong secret or
\* algorithm, expired, wrong type) the handler-level operations never raise:
\* they return false or absent, and an exchange of such a token mints nothing.
C6_HandlersNeverRaise ==
    /\ last.op \in HandlerOps => last.raised = "none"
    /\ \A tok \in Presentable :
          /\ (~Sound(tok) \/ Expired(tok, now)) =>
                /\ Rejected(verify_token(tok, now))
                /\ Rejected(verify_access_token(tok, now))
                /\ Rejected(verify_refresh_token(tok, now))
                /\ Rejected(AccessGetUserId(tok, now))
                /\ Rejected(RefreshGetUserId(tok, now))
          /\ (Sound(tok) /\ DictGet(tok.claims, "type") # ACCESS) =>
                /\ Rejected(verify_access_token(tok, now))
                /\ Rejected(AccessGetUserId(tok, now))
          /\ (Sound(tok) /\ DictGet(tok.claims, "type") # REFRESH) =>
                /\ Rejected(verify_refresh_token(tok, now))
                /\ Rejected(RefreshGetUserId(tok, now))
    /\ (/\ last.op \in ExchangeOps
        /\ \/ ~Sound(last.tok)
           \/ DictGet(last.tok.claims, "type") # REFRESH
           \/ Expired(last.tok, last.t2))
          => last.out = NoToken /\ last.minted = {}

\* an exchange of a token with a tampered signature returned absent
C6_Witness ==
    /\ last.op \in ExchangeOps
    /\ last.tok = Tampered(held[REFRESH].tok)
    /\ last.raised = "none"
    /\ last.out = NoToken

\* C7 (as claimed): decode_token fails with an ExpiredToken outcome on a
\* well-formed, correctly signed token past its exp, and with an InvalidToken
\* outcome on a malformed, wrongly signed or wrong-algorithm token, two error
\* kinds the caller can tell apart.
C7_ExpiredIsItsOwnError ==
    last.op = "decode_token" =>
        /\ (Sound(last.tok) /\ Expired(last.tok, last.at))
              => last.raised = "ExpiredSignatureError"
        /\ ~Sound(last.tok)
              => last.raised \in InvalidTokenErrors \ {"ExpiredSignatureError"}

\* C7 (amended): decode_token fails with the one class InvalidTokenError in
\* both cases; the expired case and the invalid cases differ only in the text
\* the error carries.
C7_DecodeErrorText ==
    last.op = "decode_token" =>
        /\ (Sound(last.tok) /\ ~Expired(last.tok, last.at)) => last.raised = "none"
        /\ (Sound(last.tok) /\ Expired(last.tok, last.at))
              => last.raised = "InvalidTokenError" /\ last.msg = "Signature has expired"
        /\ ~Sound(last.tok)
              => /\ last.raised = "InvalidTokenError"
                 /\ last.msg \in {"Not enough segments",
                                  "The specified alg value is not allowed",
                                  "Signature verification failed"}

\* a held token was decoded after its exp
C7_Witness ==
    /\ last.op = "decode_token"
    /\ last.tok \in IssuedTokens
    /\ Expired(last.tok, last.at)
    /\ last.raised = "InvalidTokenError"

\* the instant from which jwt.decode takes r's token to be expired
ExpiryInstant(r) == ((r.at + r.ttl) \div TicksPerSecond) * TicksPerSecond

\* C8 (as claimed): a token issued at t with TTL d > 0 is accepted by its
\* handler's validate at every time before t + d and rejected from t + d on.
C8_ValidUntilIssuePlusTtl ==
    \A r \in Issued :
        (NoOverride(r) /\ r.ttl > 0)
            => (Validate(r, now) <=> now < r.at + r.ttl)

C8_Inv ==
    \A r \in Issued :
        (NoOverride(r) /\ r.ttl > 0) =>
            /\ r.at <= now
            /\ Validate(r, now) <=> now < ExpiryInstant(r)
            /\ SubjectOf(r, now) # None <=> now < ExpiryInstant(r)
            /\ ExpiryInstant(r) <= r.at + r.ttl
            /\ r.at + r.ttl < ExpiryInstant(r) + TicksPerSecond

C8_Step ==
    /\ now' >= now
    /\ \A h \in {ACCESS, REFRESH} :
          held[h] # NoIssuance =>
              /\ held'[h] # held[h] => held'[h].by = h /\ held'[h].at = now'
              /\ ~Validate(held[h], now) => ~Validate(held[h], now')

\* C8 (amended): with a non-decreasing clock, a token issued at t with TTL
\* d > 0 is accepted by its handler's validate at every time before t + d cut
\* down to a whole second (the exp claim) and rejected from that instant on;
\* once rejected it is never accepted again, and no call changes an issued
\* token: a handler's token is only ever replaced by that handler's next issue.
C8_ValidUntilExpClaim == []C8_Inv /\ [][C8_Step]_vars

\* a token issued a fraction of a second past the second was presented, and
\* rejected, before the instant of issuance plus TTL
C8_Witness ==
    /\ last.op = "verify_access_token"
    /\ last.tok = held[ACCESS].tok
    /\ NoOverride(held[ACCESS])
    /\ held[ACCESS].ttl > 0
    /\ held[ACCESS].at % TicksPerSecond # 0
    /\ now < held[ACCESS].at + held[ACCESS].ttl
    /\ ~last.bool

C9_Inv ==
    /\ xch.pc = "verified" =>
          /\ StrTruthy(xch.user_id)
          /\ xch.user_id = DictGet(xch.tok.claims, "sub")
          /\ xch.t2 <= now
          /\ verify_refresh_token(xch.tok, xch.t2).bool
    /\ last.op \in ExchangeOps =>
          \/ last.out = NoToken /\ last.minted = {}
          \/ /\ last.minted = {last.out}
             /\ held[ACCESS].tok = last.out
             /\ held[ACCESS].at = last.at
             /\ AccessGetUserId(last.out, last.at).sub = DictGet(last.tok.claims, "sub")
             /\ last.t2 <= last.at
             /\ verify_refresh_token(last.tok, last.t2).bool

C9_Step ==
    xch.pc # "idle" =>
        IF xch'.pc = "idle" /\ last'.out # NoToken
        THEN /\ held'[REFRESH] = held[REFRESH]
             /\ held'[ACCESS].tok = last'.out
             /\ xch.pc = "verified"
        ELSE held' = held

\* C9: generate_new_access_token decodes the refresh token twice, and wherever
\* the expiry instant falls relative to the two decodes it either returns one
\* new access token for the refresh token's subject or returns absent having
\* issued nothing; a token is returned only if the refresh token was
\* decodable, unexpired and of type refresh at the last check before issuance.
C9_ExchangeAllOrNothing == []C9_Inv /\ [][C9_Step]_vars

\* the refresh token expired between the two decodes: the first gave a user
\* id, the second failed, and the exchange returned absent
C9_Witness ==
    /\ last.op \in ExchangeOps
    /\ last.tok = held[REFRESH].tok
    /\ StrTruthy(last.sub)
    /\ last.out = NoToken
    /\ last.minted = {}
    /\ Expired(last.tok, last.t2)

Emails == {requests[i].email : i \in 1..Len(requests)}

FirstRequest(e) ==
    requests[CHOOSE i \in 1..Len(requests) :
                /\ requests[i].email = e
                /\ \A j \in 1..(i - 1) : requests[j].email # e]

\* C10: users_db holds for each email the record of the first register request
\* for that email: a later register with a present email fails with 409 and
\* changes nothing, a register with a new email adds that one entry, and no
\* entry is removed or overwritten.
C10_FirstRegistrationKept ==
    /\ DOMAIN users_db = Emails
    /\ \A e \in DOMAIN users_db : users_db[e] = FirstRequest(e)
    /\ Len(requests) > 0 =>
          LET n == Len(requests)
              seen == \E j \in 1..(n - 1) : requests[j].email = requests[n].email
          IN  /\ seen => response = [status |-> Conflict, result |-> FALSE]
              /\ ~seen => response = [status |-> 200, result |-> TRUE]

\* a second, different request for a registered email was refused
C10_Witness ==
    /\ Len(requests) >= 2
    /\ response.status = Conflict
    /\ users_db[requests[Len(requests)].email] # requests[Len(requests)]

====
